---- MODULE Spec2Model ----
(***************************************************************************)
(* A model of django-memoized-prefetch: MemoizedPrefetchConfig,            *)
(* dotted_getattr and MemoizedPrefetch (__init__, _get_m2m_related_ids,    *)
(* process_chunk and the two _assign_attributes_from_cache_* methods),     *)
(* together with the LRU mapping of the `lru` package the caches are made  *)
(* of and a small database the querysets read.                             *)
(*                                                                         *)
(* Texts (attribute paths, field names, cache keys) are sequences of       *)
(* pieces: an identifier piece such as "p", the two delimiters "." and     *)
(* "__", the separator "_" and the suffix "_id".  Splitting, joining and   *)
(* searching work on those sequences as str.split, str.rsplit, f-strings   *)
(* and `in` work on the characters.                                        *)
(***************************************************************************)
EXTENDS Integers, Sequences, FiniteSets, TLC

VARIABLES
    pending,        \* the MemoizedPrefetchConfig objects built so far, in order
    last_config,    \* the outcome of the latest MemoizedPrefetchConfig(...) call
    ctor,           \* position of MemoizedPrefetch.__init__: [pc, k]
    memoized_objects_configs,           \* registered configs, in insertion order
    memoized_objects,                   \* model -> LRU of id -> entity
    through_model_source_target_cache,  \* cache_key -> LRU of source id -> target ids
    heap,           \* the record objects the caller holds: ref -> attributes
    loc,            \* caller -> locals of its process_chunk call
    db_calls,       \* queries issued by __init__ (prefetch_all), per model
    db_version,     \* how many times the rows of the database were rewritten
    failing         \* the tables whose queries raise OperationalError at present

vars == <<pending, last_config, ctor, memoized_objects_configs, memoized_objects,
          through_model_source_target_cache, heap, loc, db_calls, db_version, failing>>

-----------------------------------------------------------------------------
(* Bounds of the model *)

\* longest chunk handed to process_chunk
MaxChunk == 3

\* most configs handed to MemoizedPrefetch(...)
MaxConfigs == 2

\* most rewrites of the rows of the database
MaxVersion == 1

-----------------------------------------------------------------------------
(* Generic helpers *)

EmptyMap == [x \in {} |-> 0]

MapPut(f, k, v) == [x \in (DOMAIN f) \cup {k} |-> IF x = k THEN v ELSE f[x]]

Range(s) == {s[i] : i \in DOMAIN s}

\* all the orders in which a query without ORDER BY may return the rows S
Orderings(S) == {f \in [1..Cardinality(S) -> S] : \A i, j \in 1..Cardinality(S) : f[i] = f[j] => i = j}

\* the rows S in ascending id order (a queryset of a model with Meta.ordering = ("id",))
RECURSIVE SortedSeq(_)
SortedSeq(S) ==
    IF S = {} THEN <<>>
    ELSE LET m == CHOOSE x \in S : \A y \in S : x <= y
         IN <<m>> \o SortedSeq(S \ {m})

-----------------------------------------------------------------------------
(* Texts *)

\* `piece in name`
Contains(name, piece) == \E i \in DOMAIN name : name[i] = piece

\* name.split(delim): the pieces between the occurrences of the delimiter
RECURSIVE SplitFrom(_, _, _, _)
SplitFrom(name, delim, i, cur) ==
    IF i > Len(name) THEN <<cur>>
    ELSE IF name[i] = delim THEN <<cur>> \o SplitFrom(name, delim, i + 1, <<>>)
    ELSE SplitFrom(name, delim, i + 1, Append(cur, name[i]))

Split(name, delim) == SplitFrom(name, delim, 1, <<>>)

\* name.rsplit(delim, 1): what precedes and what follows the last delimiter
RSplit1(name, delim) ==
    LET last == CHOOSE i \in DOMAIN name :
                    name[i] = delim /\ \A j \in DOMAIN name : name[j] = delim => j <= i
    IN <<SubSeq(name, 1, last - 1), SubSeq(name, last + 1, Len(name))>>

\* f"{attribute}_id"
WithId(attribute) == Append(attribute, "_id")

-----------------------------------------------------------------------------
(* lru.LRU: a recency-ordered bounded mapping.  items[1] is the most       *)
(* recently used entry, items[Len] the next to be evicted.                 *)

\* LRU(size)
LRUNew(size) == [size |-> size, items |-> <<>>]

\* len(l)
LRULen(l) == Len(l.items)

\* l.keys(): most recently used first, recency unchanged
LRUKeys(l) == [i \in DOMAIN l.items |-> l.items[i].k]

LRUKeySet(l) == Range(LRUKeys(l))

\* l.values()
LRUValues(l) == [i \in DOMAIN l.items |-> l.items[i].v]

\* key in l: recency unchanged
LRUHas(l, key) == key \in LRUKeySet(l)

LRUIndex(l, key) == CHOOSE i \in DOMAIN l.items : l.items[i].k = key

\* faulty variant: the most recently used value, whatever the key
LRUPeekHead(l, key) == l.items[1].v

\* the value l[key] returns
LRUPeek(l, key) == l.items[LRUIndex(l, key)].v

LRUWithout(l, key) == SelectSeq(l.items, LAMBDA e : e.k # key)

\* faulty variant: a read leaves the recency order alone
LRUTouchNoMove(l, key) == l

\* what l[key] and l.get(key) do to l when the key is there: move it to the head
LRUTouch(l, key) ==
    IF LRUHas(l, key)
    THEN [l EXCEPT !.items = <<l.items[LRUIndex(l, key)]>> \o LRUWithout(l, key)]
    ELSE l

\* faulty variant: the nodes deleted are the first, the most recently used
LRUPurgeHead(l) ==
    IF Len(l.items) > l.size
    THEN [l EXCEPT !.items = SubSeq(l.items, Len(l.items) - l.size + 1, Len(l.items))]
    ELSE l

\* while len(l) > size: delete the last node
LRUPurge(l) ==
    IF Len(l.items) > l.size THEN [l EXCEPT !.items = SubSeq(l.items, 1, l.size)] ELSE l

\* faulty variant: a new key evicts nothing
LRUSetItemNoEvict(l, key, value) ==
    [l EXCEPT !.items = <<[k |-> key, v |-> value]>> \o LRUWithout(l, key)]

\* l[key] = value: a known key gets the value and moves to the head; a new key
\* evicts the last node when the mapping is full and goes to the head
LRUSetItem(l, key, value) ==
    IF LRUHas(l, key)
    THEN [l EXCEPT !.items = <<[k |-> key, v |-> value]>> \o LRUWithout(l, key)]
    ELSE LET kept == IF Len(l.items) + 1 > l.size
                     THEN SubSeq(l.items, 1, Len(l.items) - 1)
                     ELSE l.items
         IN [l EXCEPT !.items = <<[k |-> key, v |-> value]>> \o kept]

\* l.update(d) for a dict d, given as its items in iteration order
RECURSIVE LRUUpdate(_, _)
LRUUpdate(l, d) ==
    IF d = <<>> THEN l
    ELSE LRUUpdate(LRUSetItem(l, Head(d).k, Head(d).v), Tail(d))

\* l.get_size(): the capacity, not the number of entries
LRUGetSize(l) == l.size

\* l.set_size(n)
LRUSetSize(l, n) == LRUPurge([l EXCEPT !.size = n])

-----------------------------------------------------------------------------
(* The database the querysets read.  Rec is the model of the records a     *)
(* chunk holds: foreign keys p and q to Parent (both nullable), a nullable *)
(* foreign key o to Other, a nullable foreign key a to Mid, whose rows have *)
(* a nullable foreign key b to Parent, and a many-to-many field tags to    *)
(* Related through Through.                                                *)
(* 0 stands for NULL in a foreign-key column.                              *)

Records == 1..4

ParentRows == {1, 2, 3}

OtherRows == {1, 2}

RelatedRows == {1, 2, 3}

Table(model) ==
    CASE model = "Parent" -> ParentRows
      [] model = "Related" -> RelatedRows
      [] model = "Other" -> OtherRows
      [] OTHER -> {}

\* Rec.p_id, Rec.q_id, Rec.o_id, Rec.a_id of each record
RecP == <<1, 2, 3, 0>>
RecQ == <<2, 0, 3, 1>>
RecO == <<1, 0, 2, 2>>
RecA == <<1, 2, 0, 1>>

\* Mid.b_id of each Mid row
MidB == <<2, 0>>

\* the rows of Rec.tags.through: record 3 has none
ThroughRows ==
    { (<<"rec", "_id">> :> 1) @@ (<<"related", "_id">> :> 1),
      (<<"rec", "_id">> :> 1) @@ (<<"related", "_id">> :> 2),
      (<<"rec", "_id">> :> 2) @@ (<<"related", "_id">> :> 2),
      (<<"rec", "_id">> :> 4) @@ (<<"related", "_id">> :> 3) }

\* an entity object as a queryset materialises it: the row as it is now
Entity(id) == [id |-> id, ver |-> db_version]

\* the object select_related attaches to record r for its foreign key a
MidRef(r) == r + 10

Refs == Records \cup {MidRef(r) : r \in {x \in Records : RecA[x] # 0}}

-----------------------------------------------------------------------------
(* Attribute access on the caller's objects.  A value read from an object  *)
(* is [kind, n]: an integer, None, another object (n its ref), an entity   *)
(* bound earlier (n its id), or the AttributeError of an unknown name.     *)

IntValue(n) == IF n = 0 THEN [kind |-> "none", n |-> 0] ELSE [kind |-> "int", n |-> n]

\* a model instance before anything is bound on it
FreshObject == [attrs |-> EmptyMap, has_poc |-> FALSE, poc |-> EmptyMap]

FreshHeap == [o \in Refs |-> FreshObject]

\* getattr(obj, key) for the object with reference o
GetAttr(h, o, key) ==
    CASE o \in Records /\ key = <<"id">> -> IntValue(o)
      [] o \in Records /\ key = <<"p", "_id">> -> IntValue(RecP[o])
      [] o \in Records /\ key = <<"q", "_id">> -> IntValue(RecQ[o])
      [] o \in Records /\ key = <<"o", "_id">> -> IntValue(RecO[o])
      [] o \in Records /\ key = <<"a", "_id">> -> IntValue(RecA[o])
      [] o \in Records /\ key = <<"a">> ->
            IF RecA[o] = 0 THEN [kind |-> "none", n |-> 0]
            ELSE [kind |-> "obj", n |-> MidRef(o)]
      [] o \in Refs \ Records /\ key = <<"id">> -> IntValue(RecA[o - 10])
      [] o \in Refs \ Records /\ key = <<"b", "_id">> -> IntValue(MidB[RecA[o - 10]])
      [] OTHER ->
            IF o \in DOMAIN h /\ key \in DOMAIN h[o].attrs
            THEN [kind |-> "ent", n |-> h[o].attrs[key].id]
            ELSE [kind |-> "error", n |-> 0]

\* setattr(obj, name, value)
SetAttr(h, o, name, value) == [h EXCEPT ![o].attrs = MapPut(@, name, value)]

\* dotted_getattr's loop over keys, from position i, standing on the value cur
RECURSIVE DottedWalk(_, _, _, _)
DottedWalk(h, cur, keys, i) ==
    IF i > Len(keys) THEN cur
    ELSE IF cur.kind # "obj" THEN [kind |-> "error", n |-> 0]
    ELSE IF i # Len(keys) /\ GetAttr(h, cur.n, WithId(keys[i])).kind = "none"
         THEN [kind |-> "none", n |-> 0]
    ELSE IF i # Len(keys) /\ GetAttr(h, cur.n, WithId(keys[i])).kind = "error"
         THEN [kind |-> "error", n |-> 0]
    ELSE DottedWalk(h, GetAttr(h, cur.n, keys[i]), keys, i + 1)

\* dotted_getattr(obj, name)
dotted_getattr(h, o, name) ==
    LET key_to_use == IF Contains(name, "__") THEN "__" ELSE "."
        keys == Split(name, key_to_use)
    IN DottedWalk(h, [kind |-> "obj", n |-> o], keys, 1)

\* faulty variant: None counts as an id
TruthyNone(value) == value.kind # "error"

\* the truth value `if pk := ...` tests
Truthy(value) == value.kind \in {"int", "obj", "ent"} /\ ~(value.kind = "int" /\ value.n = 0)

-----------------------------------------------------------------------------
(* MemoizedPrefetchConfig.  An optional text is [some, v]: None is         *)
(* [some |-> FALSE], the empty string has v = <<>>.                        *)

None == [some |-> FALSE, v |-> <<>>]

Some(text) == [some |-> TRUE, v |-> text]

\* `not x` for a text, a class or None
Not(x) == ~x.some \/ x.v = <<>>

\* faulty variant: only through_model is required
post_init_through_only(self) ==
    IF self.is_many_to_many /\ Not(self.through_model) THEN "ValueError" ELSE "ok"

\* __post_init__: "ok", or the ValueError it raises
post_init(self) ==
    IF self.is_many_to_many
       /\ (Not(self.through_model) \/ Not(self.source_field) \/ Not(self.target_field))
    THEN "ValueError"
    ELSE "ok"

\* the ids of the rows config.get_queryset() ranges over; queryset None is
\* model.objects.all(), seal() changes no row
get_queryset(self) ==
    IF self.queryset.some THEN Table(self.model) \cap self.queryset.ids
    ELSE Table(self.model)

NoQueryset == [some |-> FALSE, ids |-> {}]

\* MemoizedPrefetchConfig(model, attributes, ...)
Config(model, attributes, prefetch_all, lru_cache_size, is_many_to_many, through_model, source_field, target_field) ==
    [model |-> model, attributes |-> attributes, queryset |-> NoQueryset,
     prefetch_all |-> prefetch_all, lru_cache_size |-> lru_cache_size,
     is_many_to_many |-> is_many_to_many, through_model |-> through_model,
     source_field |-> source_field, target_field |-> target_field]

\* a config of a direct relation
DirectConfig(model, attributes, size) ==
    Config(model, attributes, FALSE, size, FALSE, None, None, None)

\* a config whose queryset is model.objects.filter(id__in=ids)
Filtered(config, ids) == [config EXCEPT !.queryset = [some |-> TRUE, ids |-> ids]]

\* the config of the many-to-many field tags
M2MConfig(size) ==
    Config("Related", << <<"tags">> >>, FALSE, size, TRUE,
           Some(<<"Through">>), Some(<<"rec", "_id">>), Some(<<"related", "_id">>))

\* f"{through_model.__name__}_{source_field}_{target_field}"
CacheKey(config) ==
    config.through_model.v \o <<"_">> \o config.source_field.v \o <<"_">> \o config.target_field.v

-----------------------------------------------------------------------------
(* Querysets *)

\* the models whose Meta.ordering is ("id",); a queryset of any other model
\* returns its rows in an order the database chooses
OrderedModels == {"Parent"}

\* the orders in which a queryset of the model may return the rows with these ids
QueryOrders(model, ids) ==
    IF model \in OrderedModels THEN {SortedSeq(ids)} ELSE Orderings(ids)

\* {x.id: x for x in rows}, and what in_bulk builds: a dict in row order
AsDict(rows) == [n \in DOMAIN rows |-> [k |-> rows[n], v |-> Entity(rows[n])]]

\* the results config.get_queryset()[: config.lru_cache_size] may have
SliceResults(config) ==
    LET all == get_queryset(config)
    IN UNION {QueryOrders(config.model, part) :
                 part \in {x \in SUBSET all :
                              /\ Cardinality(x) = (IF Cardinality(all) < config.lru_cache_size
                                                   THEN Cardinality(all)
                                                   ELSE config.lru_cache_size)
                              /\ (config.model \in OrderedModels =>
                                     \A a \in x, b \in all \ x : a < b)}}

\* the results config.get_queryset().in_bulk(need_ids) may have
InBulkResults(config, need_ids) ==
    QueryOrders(config.model, get_queryset(config) \cap need_ids)

\* a query against the table of the model, named as __name__ names it, raises
QueryFails(name) == \E table \in failing : name = <<table>>

\* the (source, target) pairs of
\* through_model.objects.filter(source__in=unseen_ids).values_list(source, target)
ThroughPairs(config, unseen_ids) ==
    {<<row[config.source_field.v], row[config.target_field.v]>> :
        row \in {x \in ThroughRows : x[config.source_field.v] \in unseen_ids}}

-----------------------------------------------------------------------------
(* MemoizedPrefetch: state *)

Callers == {1, 2}

RegisteredModels == {memoized_objects_configs[n].model : n \in DOMAIN memoized_objects_configs}

ConfigOf(model) ==
    memoized_objects_configs[CHOOSE n \in DOMAIN memoized_objects_configs :
                                 memoized_objects_configs[n].model = model]

\* the locals of a process_chunk call that has not started
IdleLocals ==
    [pc |-> "idle", result |-> "none", objects |-> <<>>, i |-> 1, j |-> 1,
     need_objects |-> <<>>, need_to_prefetch |-> <<>>, new_objects |-> <<>>,
     fetch_calls |-> <<>>, through_calls |-> <<>>, cached |-> <<>>, returned |-> <<>>,
     fresh |-> FALSE, repeat |-> FALSE, before |-> FreshHeap,
     retry |-> FALSE, start |-> <<>>, overlapped |-> FALSE]

\* the state before MemoizedPrefetch(*configs) runs
InitWith(configs) ==
    /\ pending = configs
    /\ last_config = [outcome |-> "none", args |-> DirectConfig("Parent", <<>>, 1)]
    /\ ctor = [pc |-> "new", k |-> 1]
    /\ memoized_objects_configs = <<>>
    /\ memoized_objects = EmptyMap
    /\ through_model_source_target_cache = EmptyMap
    /\ heap = FreshHeap
    /\ loc = [t \in Callers |-> IdleLocals]
    /\ db_calls = <<>>
    /\ db_version = 0
    /\ failing = {}

-----------------------------------------------------------------------------
(* MemoizedPrefetchConfig(...) and MemoizedPrefetch.__init__ *)

\* the caller builds one more config: the dataclass runs __post_init__ and the
\* config exists only when that raises nothing
NewConfig(args) ==
    /\ ctor.pc = "new"
    /\ Len(pending) < MaxConfigs
    /\ last_config' = [outcome |-> post_init(args), args |-> args]
    /\ pending' = IF post_init(args) = "ok" THEN Append(pending, args) ELSE pending
    /\ UNCHANGED <<ctor, memoized_objects_configs, memoized_objects,
                   through_model_source_target_cache, heap, loc, db_calls, db_version, failing>>

\* faulty variant: no model counts as registered
AlreadyRegisteredNever(model) == FALSE

\* faulty variant: prefetch_all loads nothing
SeededEmpty(config, rows) == LRUNew(config.lru_cache_size)

\* LRU(config.lru_cache_size) after .update({x.id: x for x in rows}) (lines 40-46)
Seeded(config, rows) == LRUUpdate(LRUNew(config.lru_cache_size), AsDict(rows))

\* config.model in self.memoized_objects_configs
AlreadyRegistered(model) == model \in RegisteredModels

\* one turn of the loop `for config in configs` of __init__
InitStep ==
    /\ ctor.pc \in {"new", "init"}
    /\ IF ctor.k > Len(pending)
       THEN /\ ctor' = [ctor EXCEPT !.pc = "ready"]
            /\ UNCHANGED <<memoized_objects_configs, memoized_objects, db_calls>>
       ELSE LET config == pending[ctor.k]
            IN IF AlreadyRegistered(config.model)
               THEN /\ ctor' = [ctor EXCEPT !.pc = "ValueError"]
                    /\ UNCHANGED <<memoized_objects_configs, memoized_objects, db_calls>>
               ELSE /\ ctor' = [pc |-> "init", k |-> ctor.k + 1]
                    /\ memoized_objects_configs' = Append(memoized_objects_configs, config)
                    /\ IF config.prefetch_all
                       THEN \E rows \in SliceResults(config) :
                               /\ memoized_objects' =
                                     MapPut(memoized_objects, config.model, Seeded(config, rows))
                               /\ db_calls' = Append(db_calls, config.model)
                       ELSE /\ memoized_objects' =
                                  MapPut(memoized_objects, config.model,
                                         LRUNew(config.lru_cache_size))
                            /\ UNCHANGED db_calls
    /\ UNCHANGED <<pending, last_config, through_model_source_target_cache, heap, loc,
                   db_version, failing>>

-----------------------------------------------------------------------------
(* MemoizedPrefetch._get_m2m_related_ids *)

\* the bridge cache registered under the key, created on first use
BridgeOf(caches, config) ==
    IF CacheKey(config) \in DOMAIN caches THEN caches[CacheKey(config)]
    ELSE LRUNew(config.lru_cache_size)

\* faulty variant: the bridge is queried whatever it holds
AllSeenNever(caches, obj_ids, config) == FALSE

\* all(obj_id in cache for obj_id in obj_ids)
AllSeen(caches, obj_ids, config) ==
    \A n \in DOMAIN obj_ids : LRUHas(BridgeOf(caches, config), obj_ids[n])

\* faulty variant: every id of the chunk is queried again
UnseenIdsAll(caches, obj_ids, config) == Range(obj_ids)

\* set(obj_ids) - set(cache.keys())
UnseenIds(caches, obj_ids, config) ==
    Range(obj_ids) \ LRUKeySet(BridgeOf(caches, config))

\* the loop `for source_id, target_id in through_objects`
RECURSIVE FillMapping(_, _)
FillMapping(mapping, through_objects) ==
    IF through_objects = <<>> THEN mapping
    ELSE LET source_id == Head(through_objects)[1]
             target_id == Head(through_objects)[2]
             created == IF ~LRUHas(mapping, source_id)
                        THEN LRUSetItem(mapping, source_id, <<>>)
                        ELSE mapping
             \* mapping[source_id] moves the entry to the head, append grows its list
             appended == LRUSetItem(created, source_id,
                                    Append(LRUPeek(created, source_id), target_id))
         IN FillMapping(appended, Tail(through_objects))

\* cache.update(mapping), where mapping is the cache itself: LRU.update copies
\* from a dict only, and an LRU is no dict, so nothing moves
UpdateFromItself(mapping) == mapping

\* _get_m2m_related_ids(obj_ids, config), the query answering through_objects:
\* the caches afterwards and the mapping returned
get_m2m_related_ids(caches, obj_ids, config, through_objects) ==
    IF Not(config.through_model) \/ Not(config.source_field) \/ Not(config.target_field)
    THEN [err |-> "ValueError", caches |-> caches, queried |-> FALSE]
    ELSE LET registered == MapPut(caches, CacheKey(config), BridgeOf(caches, config))
         IN IF AllSeen(caches, obj_ids, config)
            THEN [err |-> "none", caches |-> registered, queried |-> FALSE]
            ELSE [err |-> "none", queried |-> TRUE,
                  caches |-> MapPut(caches, CacheKey(config),
                                    UpdateFromItself(
                                        FillMapping(BridgeOf(caches, config), through_objects)))]

-----------------------------------------------------------------------------
(* process_chunk: need computation and miss detection (lines 78-97) *)

\* need_objects[model].update(ids) / .add(pk) on the defaultdict, whose keys
\* keep the order of their first use
NeedAdd(need_objects, model, ids) ==
    IF \E n \in DOMAIN need_objects : need_objects[n].cls = model
    THEN [n \in DOMAIN need_objects |->
             IF need_objects[n].cls = model
             THEN [need_objects[n] EXCEPT !.ids = @ \cup ids]
             ELSE need_objects[n]]
    ELSE Append(need_objects, [cls |-> model, ids |-> ids])

NeedOf(need_objects, model) ==
    UNION {need_objects[n].ids : n \in {x \in DOMAIN need_objects : need_objects[x].cls = model}}

\* for target_ids in related_ids.values(): need_objects[config.model].update(target_ids)
RECURSIVE NeedFromValues(_, _, _)
NeedFromValues(need_objects, model, values) ==
    IF values = <<>> THEN need_objects
    ELSE NeedFromValues(NeedAdd(need_objects, model, Range(Head(values))), model, Tail(values))

\* for attribute in config.attributes: if pk := dotted_getattr(obj, f"{attribute}_id")
RECURSIVE NeedFromAttributes(_, _, _, _, _)
NeedFromAttributes(need_objects, h, config, o, k) ==
    IF k > Len(config.attributes) THEN need_objects
    ELSE LET pk == dotted_getattr(h, o, WithId(config.attributes[k]))
         IN NeedFromAttributes(
                IF Truthy(pk) THEN NeedAdd(need_objects, config.model, {pk.n}) ELSE need_objects,
                h, config, o, k + 1)

\* for obj in objects: ...
RECURSIVE NeedFromObjects(_, _, _, _, _)
NeedFromObjects(need_objects, h, config, objects, n) ==
    IF n > Len(objects) THEN need_objects
    ELSE NeedFromObjects(NeedFromAttributes(need_objects, h, config, objects[n], 1),
                         h, config, objects, n + 1)

\* dotted_getattr raises on some object of the chunk: an unknown name, or a
\* name looked up on None
NeedRaises(h, config, objects) ==
    \E n \in DOMAIN objects : \E k \in DOMAIN config.attributes :
        dotted_getattr(h, objects[n], WithId(config.attributes[k])).kind = "error"

\* faulty variant: a model whose ids are all cached is fetched all the same
RECURSIVE NeedToPrefetchKeepEmpty(_, _)
NeedToPrefetchKeepEmpty(need_objects, memo) ==
    IF need_objects = <<>> THEN <<>>
    ELSE <<[cls |-> Head(need_objects).cls,
            ids |-> Head(need_objects).ids \ LRUKeySet(memo[Head(need_objects).cls])]>>
         \o NeedToPrefetchKeepEmpty(Tail(need_objects), memo)

\* faulty variant: the cached ids are fetched again
NeedToPrefetchAll(need_objects, memo) ==
    SelectSeq(need_objects, LAMBDA e : e.ids # {})

\* need_ids - set(self.memoized_objects[cls].keys()), kept when not empty
RECURSIVE NeedToPrefetch(_, _)
NeedToPrefetch(need_objects, memo) ==
    IF need_objects = <<>> THEN <<>>
    ELSE LET cls == Head(need_objects).cls
             need_ids == Head(need_objects).ids \ LRUKeySet(memo[cls])
         IN (IF need_ids # {} THEN <<[cls |-> cls, ids |-> need_ids]>> ELSE <<>>)
            \o NeedToPrefetch(Tail(need_objects), memo)

\* the ids of the chunk's needs that are cached when the misses are computed
CachedAtMiss(need_objects, memo) ==
    [n \in DOMAIN need_objects |->
        [cls |-> need_objects[n].cls,
         ids |-> need_objects[n].ids \cap LRUKeySet(memo[need_objects[n].cls])]]

-----------------------------------------------------------------------------
(* Binding: _assign_attributes_from_cache_m2m (lines 119-138) *)

\* [memo[pk] for pk in related_ids if pk in memo]: the objects, and the cache
\* with every entry read moved to its head
RECURSIVE RelatedObjects(_, _, _)
RelatedObjects(memo, related_ids, acc) ==
    IF related_ids = <<>> THEN [objs |-> acc, memo |-> memo]
    ELSE LET pk == Head(related_ids)
         IN IF LRUHas(memo, pk)
            THEN RelatedObjects(LRUTouch(memo, pk), Tail(related_ids),
                                Append(acc, LRUPeek(memo, pk)))
            ELSE RelatedObjects(memo, Tail(related_ids), acc)

\* set.add of a model instance: instances of one model are equal when their
\* ids are, and a set keeps the element it already holds
SetAdd(collection, related_obj) ==
    IF \E e \in collection : e.id = related_obj.id THEN collection
    ELSE collection \cup {related_obj}

\* set(related_objects)
RECURSIVE AsSet(_, _)
AsSet(related_objects, acc) ==
    IF related_objects = <<>> THEN acc
    ELSE AsSet(Tail(related_objects), SetAdd(acc, Head(related_objects)))

\* for related_obj in related_objects: add those whose id is not in
\* existing_ids, the ids the collection held before the loop
RECURSIVE MergeInto(_, _, _)
MergeInto(existing_cache, existing_ids, related_objects) ==
    IF related_objects = <<>> THEN existing_cache
    ELSE MergeInto(IF Head(related_objects).id \notin existing_ids
                   THEN SetAdd(existing_cache, Head(related_objects))
                   ELSE existing_cache,
                   existing_ids, Tail(related_objects))

\* faulty variant: the collection is replaced whatever the object carries
AssignM2MAttributeOverwrite(obj, attribute, related_objects) ==
    [obj EXCEPT !.has_poc = TRUE,
                !.poc = MapPut(@, attribute, AsSet(related_objects, {}))]

\* the body of `for attribute in config.attributes` for one attribute
AssignM2MAttribute(obj, attribute, related_objects) ==
    IF obj.has_poc /\ attribute \in DOMAIN obj.poc
    THEN [obj EXCEPT !.poc = MapPut(@, attribute,
                                    MergeInto(obj.poc[attribute],
                                              {e.id : e \in obj.poc[attribute]},
                                              related_objects))]
    ELSE [obj EXCEPT !.has_poc = TRUE,
                     !.poc = MapPut(@, attribute, AsSet(related_objects, {}))]

RECURSIVE AssignM2MAttributes(_, _, _, _)
AssignM2MAttributes(obj, attributes, k, related_objects) ==
    IF k > Len(attributes) THEN obj
    ELSE AssignM2MAttributes(AssignM2MAttribute(obj, attributes[k], related_objects),
                             attributes, k + 1, related_objects)

\* faulty variant: the lookup leaves an empty list behind for an id it does
\* not find (cache.setdefault(obj.id, []))
assign_attributes_from_cache_m2m_setdefault(h, memo, bridge, config, o) ==
    LET obj_id == GetAttr(h, o, <<"id">>).n
        related_ids == IF LRUHas(bridge, obj_id) THEN LRUPeek(bridge, obj_id) ELSE <<>>
        got == RelatedObjects(memo, related_ids, <<>>)
    IN [err |-> "none",
        heap |-> [h EXCEPT ![o] = AssignM2MAttributes(@, config.attributes, 1, got.objs)],
        memo |-> got.memo,
        bridge |-> IF LRUHas(bridge, obj_id) THEN LRUTouch(bridge, obj_id)
                   ELSE LRUSetItem(bridge, obj_id, <<>>)]

\* _assign_attributes_from_cache_m2m(config, obj): the heap, the entity cache
\* and the bridge cache afterwards
assign_attributes_from_cache_m2m(h, memo, bridge, config, o) ==
    LET obj_id == GetAttr(h, o, <<"id">>).n
        \* cache.get(obj.id, []) moves a key it finds to the head
        related_ids == IF LRUHas(bridge, obj_id) THEN LRUPeek(bridge, obj_id) ELSE <<>>
        got == RelatedObjects(memo, related_ids, <<>>)
    IN [err |-> "none",
        heap |-> [h EXCEPT ![o] = AssignM2MAttributes(@, config.attributes, 1, got.objs)],
        memo |-> got.memo,
        bridge |-> LRUTouch(bridge, obj_id)]

-----------------------------------------------------------------------------
(* Binding: _assign_attributes_from_cache_foreign_key (lines 140-158) *)

\* faulty variant: setattr(obj, attribute, value) whatever the attribute
AssignTargetFlat(h, o, attribute) == [obj |-> [kind |-> "obj", n |-> o], name |-> attribute]

\* the object and the attribute name the value is set on
AssignTarget(h, o, attribute) ==
    IF Contains(attribute, "__") \/ Contains(attribute, ".")
    THEN LET key_to_use == IF Contains(attribute, "__") THEN "__" ELSE "."
             parts == RSplit1(attribute, key_to_use)
         IN [obj |-> dotted_getattr(h, o, parts[1]), name |-> parts[2]]
    ELSE [obj |-> [kind |-> "obj", n |-> o], name |-> attribute]

\* the loop `for attribute in config.attributes` from position k; a KeyError
\* of memo[pk] ends it with what was assigned so far
RECURSIVE AssignFK(_, _, _, _, _)
AssignFK(h, memo, config, o, k) ==
    IF k > Len(config.attributes) THEN [err |-> "none", heap |-> h, memo |-> memo]
    ELSE LET attribute == config.attributes[k]
             pk == dotted_getattr(h, o, WithId(attribute))
         IN IF pk.kind = "error" THEN [err |-> "AttributeError", heap |-> h, memo |-> memo]
            ELSE IF ~Truthy(pk) THEN AssignFK(h, memo, config, o, k + 1)
            ELSE IF ~LRUHas(memo, pk.n) THEN [err |-> "KeyError", heap |-> h, memo |-> memo]
            ELSE LET value == LRUPeek(memo, pk.n)
                     target == AssignTarget(h, o, attribute)
                 IN IF target.obj.kind # "obj"
                    THEN [err |-> "AttributeError", heap |-> h, memo |-> LRUTouch(memo, pk.n)]
                    ELSE AssignFK(SetAttr(h, target.obj.n, target.name, value),
                                  LRUTouch(memo, pk.n), config, o, k + 1)

assign_attributes_from_cache_foreign_key(h, memo, config, o) == AssignFK(h, memo, config, o, 1)

-----------------------------------------------------------------------------
(* process_chunk, one action per step of a call by caller t *)

\* the chunks a caller may hand over: records of the table, each at most once
Chunks ==
    UNION {{c \in [1..n -> Records] : \A a, b \in 1..n : c[a] = c[b] => a = b} :
              n \in 0..MaxChunk}

\* where a call goes once its fetches are done: to the binding loop, which is
\* empty when there is no object or no config
ToBinding(l) ==
    [l EXCEPT !.pc = IF Len(l.objects) = 0 \/ Len(memoized_objects_configs) = 0
                     THEN "restore" ELSE "bind",
              !.i = 1, !.j = 1]

\* caller t hands over, after a call that ended with OperationalError, the
\* objects of that call
Again(t, objects, fresh) ==
    loc[t].result = "OperationalError" /\ loc[t].objects = objects /\ ~fresh

\* process_chunk(objects) is called.  The caller hands over the objects it
\* holds, or loads them from the database again (fresh instances).  A call
\* that repeats the chunk of the call that just returned remembers what that
\* call left on the objects.  A call that starts while queries fail remembers
\* the caches and the objects it started from, and so does a call that hands
\* the same objects over again after an OperationalError.
StartChunk(t, objects, fresh) ==
    /\ ctor.pc = "ready"
    /\ loc[t].pc = "idle"
    /\ \A u \in Callers : loc[u].pc = "idle"
    /\ heap' = IF fresh THEN FreshHeap ELSE heap
    /\ loc' = [loc EXCEPT ![t] =
                  [IdleLocals EXCEPT !.pc = "need", !.objects = objects, !.fresh = fresh,
                                     !.repeat = (loc[t].result = "ok" /\ loc[t].objects = objects),
                                     !.before = IF loc[t].result = "ok" /\ loc[t].objects = objects
                                                THEN heap ELSE FreshHeap,
                                     !.retry = Again(t, objects, fresh),
                                     !.start = IF Again(t, objects, fresh) THEN loc[t].start
                                               ELSE IF failing # {}
                                               THEN <<[memos |-> memoized_objects,
                                                       caches |-> through_model_source_target_cache,
                                                       heap |-> heap']>>
                                               ELSE <<>>]]
    /\ UNCHANGED <<pending, last_config, ctor, memoized_objects_configs, memoized_objects,
                   through_model_source_target_cache, db_calls, db_version, failing>>

\* process_chunk(objects) is called by a thread whatever the other threads
\* do, on objects the thread keeps.  A call that starts while another call is
\* under way overlaps with it, and that call with this one.
StartAnyTime(t, objects) ==
    /\ ctor.pc = "ready"
    /\ loc[t].pc = "idle"
    /\ loc' = [u \in Callers |->
                  IF u = t
                  THEN [IdleLocals EXCEPT !.pc = "need", !.objects = objects,
                                          !.overlapped = \E v \in Callers \ {t} :
                                                            loc[v].pc # "idle"]
                  ELSE IF loc[u].pc # "idle" THEN [loc[u] EXCEPT !.overlapped = TRUE]
                  ELSE loc[u]]
    /\ UNCHANGED <<pending, last_config, ctor, memoized_objects_configs, memoized_objects,
                   through_model_source_target_cache, heap, db_calls, db_version, failing>>

\* one turn of `for config in self.memoized_objects_configs.values()` (lines 81-90)
NeedStep(t) ==
    LET l == loc[t]
        config == memoized_objects_configs[l.j]
        obj_ids == [n \in DOMAIN l.objects |-> GetAttr(heap, l.objects[n], <<"id">>).n]
    IN /\ l.pc = "need"
       /\ l.j <= Len(memoized_objects_configs)
       /\ IF config.is_many_to_many
          THEN \E through_objects \in
                      Orderings(ThroughPairs(config, UnseenIds(through_model_source_target_cache,
                                                              obj_ids, config))) :
                  LET r == get_m2m_related_ids(through_model_source_target_cache, obj_ids,
                                               config, through_objects)
                  IN IF r.err # "none"
                     THEN /\ loc' = [loc EXCEPT ![t].pc = "idle", ![t].result = r.err]
                          /\ UNCHANGED through_model_source_target_cache
                     ELSE IF r.queried /\ QueryFails(config.through_model.v)
                     \* the query raises when the loop at line 68 evaluates it:
                     \* the cache registered at line 57 is all that was done
                     THEN /\ loc' = [loc EXCEPT ![t].pc = "idle",
                                                ![t].result = "OperationalError"]
                          /\ through_model_source_target_cache' =
                                 MapPut(through_model_source_target_cache, CacheKey(config),
                                        BridgeOf(through_model_source_target_cache, config))
                     ELSE /\ through_model_source_target_cache' = r.caches
                          /\ loc' = [loc EXCEPT
                                 ![t].j = l.j + 1,
                                 ![t].need_objects =
                                     NeedFromValues(l.need_objects, config.model,
                                                    LRUValues(r.caches[CacheKey(config)])),
                                 ![t].through_calls =
                                     IF r.queried
                                     THEN Append(l.through_calls,
                                                 UnseenIds(through_model_source_target_cache,
                                                           obj_ids, config))
                                     ELSE l.through_calls]
          ELSE /\ loc' = IF NeedRaises(heap, config, l.objects)
                           THEN [loc EXCEPT ![t].pc = "idle", ![t].result = "AttributeError"]
                           ELSE [loc EXCEPT
                                    ![t].j = l.j + 1,
                                    ![t].need_objects =
                                        NeedFromObjects(l.need_objects, heap, config,
                                                        l.objects, 1)]
               /\ UNCHANGED through_model_source_target_cache
       /\ UNCHANGED <<pending, last_config, ctor, memoized_objects_configs, memoized_objects,
                      heap, db_calls, db_version, failing>>

\* the miss detection (lines 93-97)
MissStep(t) ==
    LET l == loc[t]
        need_to_prefetch == NeedToPrefetch(l.need_objects, memoized_objects)
        found == [l EXCEPT !.need_to_prefetch = need_to_prefetch,
                           !.cached = CachedAtMiss(l.need_objects, memoized_objects),
                           !.i = 1]
    IN /\ l.pc = "need"
       /\ l.j > Len(memoized_objects_configs)
       /\ loc' = [loc EXCEPT ![t] = IF need_to_prefetch = <<>> THEN ToBinding(found)
                                    ELSE [found EXCEPT !.pc = "fetch"]]
       /\ UNCHANGED <<pending, last_config, ctor, memoized_objects_configs, memoized_objects,
                      through_model_source_target_cache, heap, db_calls, db_version, failing>>

\* new_objects = config.get_queryset().in_bulk(need_ids) (line 101)
FetchStep(t) ==
    LET l == loc[t]
        cls == l.need_to_prefetch[l.i].cls
        need_ids == l.need_to_prefetch[l.i].ids
    IN /\ l.pc = "fetch"
       /\ IF QueryFails(<<cls>>)
          THEN loc' = [loc EXCEPT
                          ![t].pc = "idle",
                          ![t].result = "OperationalError",
                          ![t].fetch_calls = Append(l.fetch_calls, [cls |-> cls, ids |-> need_ids])]
          ELSE \E rows \in InBulkResults(ConfigOf(cls), need_ids) :
                  loc' = [loc EXCEPT
                             ![t].pc = "expand",
                             ![t].new_objects = AsDict(rows),
                             ![t].fetch_calls = Append(l.fetch_calls, [cls |-> cls, ids |-> need_ids]),
                             ![t].returned = NeedAdd(l.returned, cls, Range(rows))]
       /\ UNCHANGED <<pending, last_config, ctor, memoized_objects_configs, memoized_objects,
                      through_model_source_target_cache, heap, db_calls, db_version, failing>>

\* faulty variant: the capacity is not raised before the insertion
ExpandedSizeNotRaised(memo, new_objects) == LRUGetSize(memo)

\* faulty variant: the entries held, not the capacity, plus the entities fetched
ExpandedSizeFromEntries(memo, new_objects) == LRULen(memo) + Len(new_objects)

\* the capacity set_size is given on line 104
ExpandedSize(memo, new_objects) == LRUGetSize(memo) + Len(new_objects)

\* memo.set_size(memo.get_size() + len(new_objects)) (line 104)
ExpandStep(t) ==
    LET l == loc[t]
        cls == l.need_to_prefetch[l.i].cls
    IN /\ l.pc = "expand"
       /\ memoized_objects' =
             [memoized_objects EXCEPT
                 ![cls] = LRUSetSize(@, ExpandedSize(@, l.new_objects))]
       /\ loc' = [loc EXCEPT ![t].pc = "insert"]
       /\ UNCHANGED <<pending, last_config, ctor, memoized_objects_configs,
                      through_model_source_target_cache, heap, db_calls, db_version, failing>>

\* memo.update(new_objects) (line 105), and on to the next model to fetch
InsertStep(t) ==
    LET l == loc[t]
        cls == l.need_to_prefetch[l.i].cls
    IN /\ l.pc = "insert"
       /\ memoized_objects' =
             [memoized_objects EXCEPT ![cls] = LRUUpdate(@, l.new_objects)]
       /\ loc' = [loc EXCEPT ![t] = IF l.i < Len(l.need_to_prefetch)
                                    THEN [l EXCEPT !.pc = "fetch", !.i = l.i + 1]
                                    ELSE ToBinding(l)]
       /\ UNCHANGED <<pending, last_config, ctor, memoized_objects_configs,
                      through_model_source_target_cache, heap, db_calls, db_version, failing>>

\* what binding config j onto object i leaves: the heap, the entity cache, the
\* bridge caches and the error raised, if any
Bound(h, memos, caches, config, o) ==
    IF config.is_many_to_many
    THEN LET r == assign_attributes_from_cache_m2m(h, memos[config.model],
                                                   caches[CacheKey(config)], config, o)
         IN [err |-> r.err, heap |-> r.heap,
             memos |-> [memos EXCEPT ![config.model] = r.memo],
             caches |-> [caches EXCEPT ![CacheKey(config)] = r.bridge]]
    ELSE LET r == assign_attributes_from_cache_foreign_key(h, memos[config.model], config, o)
         IN [err |-> r.err, heap |-> r.heap,
             memos |-> [memos EXCEPT ![config.model] = r.memo],
             caches |-> caches]

\* one turn of the binding loops (lines 108-113): object i, config j
BindStep(t) ==
    LET l == loc[t]
        r == Bound(heap, memoized_objects, through_model_source_target_cache,
                   memoized_objects_configs[l.j], l.objects[l.i])
        last_config_of_obj == l.j = Len(memoized_objects_configs)
    IN /\ l.pc = "bind"
       /\ heap' = r.heap
       /\ memoized_objects' = r.memos
       /\ through_model_source_target_cache' = r.caches
       /\ loc' = [loc EXCEPT ![t] =
                     IF r.err # "none" THEN [l EXCEPT !.pc = "idle", !.result = r.err]
                     ELSE IF ~last_config_of_obj THEN [l EXCEPT !.j = l.j + 1]
                     ELSE IF l.i < Len(l.objects) THEN [l EXCEPT !.i = l.i + 1, !.j = 1]
                     ELSE [l EXCEPT !.pc = "restore"]]
       /\ UNCHANGED <<pending, last_config, ctor, memoized_objects_configs, db_calls,
                   db_version, failing>>

\* faulty variant: the capacity stays what it is
RestoredSizeKept(config) == LRUGetSize(memoized_objects[config.model])

\* the capacity set_size is given on line 117
RestoredSize(config) == config.lru_cache_size

\* for cls, config in ...: memo.set_size(config.lru_cache_size) (lines 116-117),
\* and the call returns
RestoreStep(t) ==
    /\ loc[t].pc = "restore"
    /\ memoized_objects' =
          [cls \in DOMAIN memoized_objects |->
              LRUSetSize(memoized_objects[cls], RestoredSize(ConfigOf(cls)))]
    /\ loc' = [loc EXCEPT ![t].pc = "idle", ![t].result = "ok"]
    /\ UNCHANGED <<pending, last_config, ctor, memoized_objects_configs,
                   through_model_source_target_cache, heap, db_calls, db_version, failing>>

\* the steps of a process_chunk call by caller t
ProcessChunk(t) ==
    \/ \E objects \in Chunks, fresh \in BOOLEAN : StartChunk(t, objects, fresh)
    \/ NeedStep(t)
    \/ MissStep(t)
    \/ FetchStep(t)
    \/ ExpandStep(t)
    \/ InsertStep(t)
    \/ BindStep(t)
    \/ RestoreStep(t)

\* between two calls of process_chunk, another writer rewrites the rows of the
\* database: what a queryset materialises from now on differs from what it
\* materialised before
UpdateRows ==
    /\ ctor.pc = "ready"
    /\ \A t \in Callers : loc[t].pc = "idle"
    /\ db_version < MaxVersion
    /\ db_version' = db_version + 1
    /\ UNCHANGED <<pending, last_config, ctor, memoized_objects_configs, memoized_objects,
                   through_model_source_target_cache, heap, loc, db_calls, failing>>

\* the tables the resolver queries: those of the models of its configs and of
\* the through models of its many-to-many configs
Tables ==
    RegisteredModels
        \cup {memoized_objects_configs[n].through_model.v[1] :
                 n \in {x \in DOMAIN memoized_objects_configs :
                           /\ memoized_objects_configs[x].is_many_to_many
                           /\ memoized_objects_configs[x].through_model.some}}

\* between two calls the database starts to refuse the queries against one
\* table (a lock, a timeout, a lost permission): they raise OperationalError
Outage(table) ==
    /\ ctor.pc = "ready"
    /\ \A t \in Callers : loc[t].pc = "idle"
    /\ failing = {}
    /\ failing' = {table}
    /\ UNCHANGED <<pending, last_config, ctor, memoized_objects_configs, memoized_objects,
                   through_model_source_target_cache, heap, loc, db_calls, db_version>>

\* the database answers every query again
Recover ==
    /\ failing # {}
    /\ failing' = {}
    /\ UNCHANGED <<pending, last_config, ctor, memoized_objects_configs, memoized_objects,
                   through_model_source_target_cache, heap, loc, db_calls, db_version>>

-----------------------------------------------------------------------------
(* Specifications *)

\* the resolvers of direct relations: one attribute at capacity 1 or 2, two
\* attributes of one model, a nested path in either spelling, two models, and
\* a queryset that leaves out the row of a referenced id
DirectSetups ==
    { <<DirectConfig("Parent", << <<"p">> >>, 1)>>,
      <<DirectConfig("Parent", << <<"p">> >>, 2)>>,
      <<DirectConfig("Parent", << <<"p">>, <<"q">> >>, 2)>>,
      <<DirectConfig("Parent", << <<"a", ".", "b">> >>, 2)>>,
      <<DirectConfig("Parent", << <<"a", "__", "b">> >>, 2)>>,
      <<DirectConfig("Parent", << <<"p">> >>, 2), DirectConfig("Other", << <<"o">> >>, 1)>>,
      <<Filtered(DirectConfig("Parent", << <<"p">> >>, 2), {1, 2})>> }

\* the resolvers of the many-to-many field, at capacity 1 and 2
M2MSetups == { <<M2MConfig(1)>>, <<M2MConfig(2)>> }

InitDirect == \E configs \in DirectSetups : InitWith(configs)

InitM2M == \E configs \in M2MSetups : InitWith(configs)

\* the arguments a caller may give MemoizedPrefetchConfig: a model, with or
\* without prefetch_all, with a capacity below or above the number of its
\* rows, as a direct relation (with no bridge field or with all three) or as a
\* many-to-many relation with each bridge field given, empty or left out
ConfigArgs ==
    {Config(model, << <<"p">> >>, prefetch_all, lru_cache_size, FALSE, bridge[1], bridge[2], bridge[3]) :
        model \in {"Parent", "Related"}, prefetch_all \in BOOLEAN, lru_cache_size \in {2, 4},
        bridge \in {<<None, None, None>>,
                    <<Some(<<"Through">>), Some(<<"rec", "_id">>), Some(<<"related", "_id">>)>>}}
    \cup
    {Config(model, << <<"tags">> >>, prefetch_all, 2, TRUE, through_model, source_field,
            target_field) :
        model \in {"Parent", "Related"}, prefetch_all \in BOOLEAN,
        through_model \in {None, Some(<<"Through">>)},
        source_field \in {None, Some(<<>>), Some(<<"rec", "_id">>)},
        target_field \in {None, Some(<<"related", "_id">>)}}

InitCfg == InitWith(<<>>)

NextCfg == (\E args \in ConfigArgs : NewConfig(args)) \/ InitStep

\* building configs and constructing the resolver from them
SpecCfg == InitCfg /\ [][NextCfg]_vars

\* resolvers at capacity 2, of the many-to-many field and of a direct relation
StaleSetups == { <<M2MConfig(2)>>, <<DirectConfig("Parent", << <<"p">> >>, 2)>> }

InitStale == \E configs \in StaleSetups : InitWith(configs)

\* one caller processes one record at a time while the rows are rewritten
NextStale ==
    \/ InitStep
    \/ UpdateRows
    \/ \E r \in Records, fresh \in BOOLEAN : StartChunk(1, <<r>>, fresh)
    \/ NeedStep(1)
    \/ MissStep(1)
    \/ FetchStep(1)
    \/ ExpandStep(1)
    \/ InsertStep(1)
    \/ BindStep(1)
    \/ RestoreStep(1)

\* chunk processing over a database that changes between the calls
SpecStale == InitStale /\ [][NextStale]_vars

\* resolvers of two direct relations, of a direct relation whose queryset
\* leaves out the row of a referenced id, and of the many-to-many field
FailSetups ==
    { <<DirectConfig("Parent", << <<"p">> >>, 2), DirectConfig("Other", << <<"o">> >>, 1)>>,
      <<Filtered(DirectConfig("Parent", << <<"p">> >>, 2), {1, 2})>>,
      <<M2MConfig(1)>>, <<M2MConfig(2)>> }

InitFail == \E configs \in FailSetups : InitWith(configs)

\* one caller processes chunks of one or two records (or none), loaded from
\* the database, while the queries against one table or another fail for a
\* time, and hands the objects of a call that failed over again
NextFail ==
    \/ InitStep
    \/ \E table \in Tables : Outage(table)
    \/ Recover
    \/ \E objects \in {c \in Chunks : Len(c) <= 2} : StartChunk(1, objects, TRUE)
    \/ (loc[1].result = "OperationalError" /\ StartChunk(1, loc[1].objects, FALSE))
    \/ NeedStep(1)
    \/ MissStep(1)
    \/ FetchStep(1)
    \/ ExpandStep(1)
    \/ InsertStep(1)
    \/ BindStep(1)
    \/ RestoreStep(1)

\* chunk processing over a database whose queries fail at times
SpecFail == InitFail /\ [][NextFail]_vars

\* a config of a direct relation with prefetch_all=True
EagerConfig(model, attributes, size) ==
    [DirectConfig(model, attributes, size) EXCEPT !.prefetch_all = TRUE]

\* resolvers that load a table at construction: at a capacity equal to the
\* number of rows or above it, next to a config that loads nothing, and at a
\* capacity below the number of rows
EagerSetups ==
    { <<EagerConfig("Parent", << <<"p">> >>, 3)>>,
      <<EagerConfig("Parent", << <<"p">>, <<"q">> >>, 4)>>,
      <<EagerConfig("Parent", << <<"p">> >>, 3), DirectConfig("Other", << <<"o">> >>, 1)>>,
      <<EagerConfig("Other", << <<"o">> >>, 2)>>,
      <<EagerConfig("Parent", << <<"p">> >>, 2)>> }

InitEager == \E configs \in EagerSetups : InitWith(configs)

\* resolvers of one direct relation, at capacity 1 and 2
ThreadSetups ==
    { <<DirectConfig("Parent", << <<"p">> >>, 1)>>, <<DirectConfig("Parent", << <<"p">> >>, 2)>> }

InitThreads == \E configs \in ThreadSetups : InitWith(configs)

\* the records each thread processes: the table is split between the threads
RecordsOf(t) == {r \in Records : (r <= 2) <=> (t = 1)}

\* two threads share one resolver; the steps of their process_chunk calls
\* follow one another in any order
NextThreads ==
    \/ InitStep
    \/ \E t \in Callers :
          \/ \E objects \in {c \in Chunks : Range(c) \subseteq RecordsOf(t)} :
                StartAnyTime(t, objects)
          \/ NeedStep(t)
          \/ MissStep(t)
          \/ FetchStep(t)
          \/ ExpandStep(t)
          \/ InsertStep(t)
          \/ BindStep(t)
          \/ RestoreStep(t)

\* chunk processing by two threads that share a resolver
SpecThreads == InitThreads /\ [][NextThreads]_vars

\* one caller: the calls of process_chunk follow one another
NextSerial == InitStep \/ ProcessChunk(1)

\* chunk processing with direct relations
SpecDirect == InitDirect /\ [][NextSerial]_vars

\* chunk processing with a many-to-many relation
SpecM2M == InitM2M /\ [][NextSerial]_vars

\* chunk processing with tables loaded at construction
SpecEager == InitEager /\ [][NextSerial]_vars

-----------------------------------------------------------------------------
(* What the claims speak of *)

\* the call of caller t has returned normally
Returned(t) == loc[t].pc = "idle" /\ loc[t].result = "ok"

\* the foreign-key id a configured path of record r leads to, read off the
\* tables (0 when the key, or a key on the way to it, is NULL)
PathId(r, attribute) ==
    CASE attribute = <<"p">> -> RecP[r]
      [] attribute = <<"q">> -> RecQ[r]
      [] attribute = <<"o">> -> RecO[r]
      [] attribute \in {<<"a", ".", "b">>, <<"a", "__", "b">>} ->
            IF RecA[r] = 0 THEN 0 ELSE MidB[RecA[r]]

\* the non-null ids the chunk references for the config, one per record and
\* attribute, in the order binding reads them
RECURSIVE Accesses(_, _, _, _)
Accesses(objects, config, n, k) ==
    IF n > Len(objects) THEN <<>>
    ELSE IF k > Len(config.attributes) THEN Accesses(objects, config, n + 1, 1)
    ELSE (IF PathId(objects[n], config.attributes[k]) # 0
          THEN <<PathId(objects[n], config.attributes[k])>> ELSE <<>>)
         \o Accesses(objects, config, n, k + 1)

\* the configs of direct relations in force
DirectConfigs ==
    {memoized_objects_configs[n] :
        n \in {x \in DOMAIN memoized_objects_configs :
                  ~memoized_objects_configs[x].is_many_to_many}}

-----------------------------------------------------------------------------
(* C1 *)

\* the ids of the model the call of caller t relies on finding in the cache:
\* those it needs that were cached when the misses were computed or that a
\* bulk fetch of the call has returned
Relied(t, model) == NeedOf(loc[t].cached, model) \cup NeedOf(loc[t].returned, model)

\* C1: from miss detection to the end of binding of a process_chunk call, every
\* id of a direct relation the chunk needs that was cached before the batched
\* fetch, or that the fetch returned and the insertion has put in the cache, is
\* still a key of the entity cache, whatever the capacity.
C1_NoEvictionDuringChunk ==
    \A t \in Callers : \A config \in DirectConfigs :
        /\ loc[t].pc \in {"fetch", "expand", "insert", "bind", "restore"}
              => NeedOf(loc[t].cached, config.model)
                    \subseteq LRUKeySet(memoized_objects[config.model])
        /\ (loc[t].pc \in {"bind", "restore"}
              \/ (loc[t].pc = "idle" /\ loc[t].result = "KeyError"))
              => Relied(t, config.model) \subseteq LRUKeySet(memoized_objects[config.model])

\* C1 witness: the last record of a chunk is about to be bound, the chunk needs
\* more ids than the capacity, some were cached before and some were fetched
C1_Witness ==
    \E config \in DirectConfigs :
        /\ loc[1].pc = "bind"
        /\ loc[1].i = Len(loc[1].objects)
        /\ Cardinality(NeedOf(loc[1].need_objects, config.model)) > config.lru_cache_size
        /\ NeedOf(loc[1].cached, config.model) # {}
        /\ NeedOf(loc[1].returned, config.model) # {}
        /\ Relied(1, config.model) = NeedOf(loc[1].need_objects, config.model)

-----------------------------------------------------------------------------
(* C2 *)

\* the C distinct ids read last in a sequence of accesses
RECURSIVE MostRecent(_, _, _, _)
MostRecent(accesses, n, acc, C) ==
    IF n = 0 \/ Cardinality(acc) = C THEN acc
    ELSE MostRecent(accesses, n - 1, acc \cup {accesses[n]}, C)

\* the resolver has one config, of a direct relation with one attribute
OneDirectAttribute ==
    /\ Len(memoized_objects_configs) = 1
    /\ ~memoized_objects_configs[1].is_many_to_many
    /\ Len(memoized_objects_configs[1].attributes) = 1

\* C2: one direct relation with one attribute and capacity C: when process_chunk
\* has returned from a chunk whose records reference n > C distinct existing
\* ids, the entity cache holds exactly C entries, the C distinct ids read last
\* in record order.
C2_KeepsMostRecent ==
    \A t \in Callers :
        (Returned(t) /\ OneDirectAttribute) =>
            LET config == memoized_objects_configs[1]
                accesses == Accesses(loc[t].objects, config, 1, 1)
            IN (Range(accesses) \subseteq get_queryset(config)
                /\ Cardinality(Range(accesses)) > config.lru_cache_size)
                  => /\ LRULen(memoized_objects[config.model]) = config.lru_cache_size
                     /\ LRUKeySet(memoized_objects[config.model])
                           = MostRecent(accesses, Len(accesses), {}, config.lru_cache_size)

\* C2 witness: the cache was full of ids 1 and 2, the chunk referenced 1, 2 and
\* 3 in that order, and 2 and 3 are left
C2_Witness ==
    /\ Returned(1) /\ OneDirectAttribute
    /\ memoized_objects_configs[1].lru_cache_size = 2
    /\ loc[1].objects = <<1, 2, 3>>
    /\ NeedOf(loc[1].cached, "Parent") = {1, 2}
    /\ LRUKeySet(memoized_objects["Parent"]) = {2, 3}

-----------------------------------------------------------------------------
(* C3 *)

\* the records of the chunk carry what they carried when the previous call
\* returned
SameBindings(t) ==
    \A n \in DOMAIN loc[t].objects :
        LET o == loc[t].objects[n]
        IN /\ heap[o] = loc[t].before[o]
           /\ MidRef(o) \in Refs => heap[MidRef(o)] = loc[t].before[MidRef(o)]

\* a call that repeats the chunk of the call before it queries nothing and
\* returns with the bindings that call left
RepeatIsFree(t) ==
    /\ loc[t].fetch_calls = <<>>
    /\ loc[t].through_calls = <<>>
    /\ Returned(t) => SameBindings(t)

\* the chunk references, for each config, no more distinct ids than the cache
\* of the model may hold
Fits(t) ==
    \A config \in DirectConfigs :
        Cardinality(Range(Accesses(loc[t].objects, config, 1, 1))) <= config.lru_cache_size

-----------------------------------------------------------------------------
(* C4 *)

\* the bulk fetches the call of caller t has issued for the model
FetchesOf(t, model) ==
    {n \in DOMAIN loc[t].fetch_calls : loc[t].fetch_calls[n].cls = model}

\* the miss set of the config in the call of caller t: the ids the chunk
\* references that were not cached when the call looked
MissSet(t, config) ==
    Range(Accesses(loc[t].objects, config, 1, 1)) \ NeedOf(loc[t].cached, config.model)

\* the call of caller t is past its fetches
FetchesDone(t) ==
    \/ loc[t].pc \in {"bind", "restore"}
    \/ loc[t].pc = "idle" /\ loc[t].result \in {"ok", "KeyError"}

-----------------------------------------------------------------------------
(* C5, C6 *)

\* the id of the entity bound where the attribute path of record r leads, 0
\* when nothing is bound there
SlotValue(h, r, attribute) ==
    IF attribute \in {<<"a", ".", "b">>, <<"a", "__", "b">>}
    THEN IF RecA[r] # 0 /\ <<"b">> \in DOMAIN h[MidRef(r)].attrs
         THEN h[MidRef(r)].attrs[<<"b">>].id ELSE 0
    ELSE IF attribute \in DOMAIN h[r].attrs THEN h[r].attrs[attribute].id ELSE 0

\* the need set of the call of caller t is computed
NeedComputed(t) ==
    /\ loc[t].pc # "need"
    /\ loc[t].pc = "idle" => loc[t].result \in {"ok", "KeyError"}

\* C5: a record whose foreign-key id for a configured path is null, or whose
\* path crosses a null foreign key, adds no id to the need set, causes no fetch
\* and no error, and is left unbound when process_chunk returns, while the
\* records of the chunk with an id are bound.
C5_NullShortCircuit ==
    \A t \in Callers : \A config \in DirectConfigs :
        LET accesses == Range(Accesses(loc[t].objects, config, 1, 1))
        IN /\ NeedComputed(t) => NeedOf(loc[t].need_objects, config.model) = accesses
           /\ \A n \in FetchesOf(t, config.model) : loc[t].fetch_calls[n].ids \subseteq accesses
           /\ loc[t].result \notin {"AttributeError", "ValueError"}
           /\ loc[t].result = "KeyError" => ~(accesses \subseteq get_queryset(config))
           /\ Returned(t) =>
                 \A n \in DOMAIN loc[t].objects : \A k \in DOMAIN config.attributes :
                     (PathId(loc[t].objects[n], config.attributes[k]) = 0)
                        <=> (SlotValue(heap, loc[t].objects[n], config.attributes[k]) = 0)

\* C5 witness: a call has returned from a chunk with a record whose foreign key
\* a is null, one whose a.b is null and one with an id, now bound
C5_Witness ==
    /\ Returned(1)
    /\ memoized_objects_configs[1].attributes = << <<"a", ".", "b">> >>
    /\ Range(loc[1].objects) = {1, 2, 3}
    /\ SlotValue(heap, 1, <<"a", ".", "b">>) = 2
    /\ SlotValue(heap, 2, <<"a", ".", "b">>) = 0
    /\ SlotValue(heap, 3, <<"a", ".", "b">>) = 0

\* the attribute is a nested path
Nested(attribute) == Contains(attribute, "__") \/ Contains(attribute, ".")

\* C6: for a nested path a.b, in either spelling, process_chunk sets the entity
\* as attribute b of the object record.a and never sets an attribute on the
\* record itself.
C6_NestedBinding ==
    \A config \in DirectConfigs : \A k \in DOMAIN config.attributes :
        Nested(config.attributes[k]) =>
            /\ \A r \in Records : config.attributes[k] \notin DOMAIN heap[r].attrs
            /\ \A t \in Callers : Returned(t) =>
                  \A n \in DOMAIN loc[t].objects :
                      LET r == loc[t].objects[n]
                      IN PathId(r, config.attributes[k]) # 0 =>
                            /\ heap[r].attrs = EmptyMap
                            /\ heap[MidRef(r)].attrs
                                  = (<<"b">> :> Entity(PathId(r, config.attributes[k])))

\* C6 witness: with the path spelled a__b, a call has returned and the object
\* record.a of record 1 carries the entity as b
C6_Witness ==
    /\ Returned(1)
    /\ memoized_objects_configs[1].attributes = << <<"a", "__", "b">> >>
    /\ 1 \in Range(loc[1].objects)
    /\ heap[MidRef(1)].attrs = (<<"b">> :> Entity(2))
    /\ heap[1].attrs = EmptyMap

-----------------------------------------------------------------------------
(* C7, C8 *)

\* the configs of many-to-many relations in force
M2MConfigs ==
    {memoized_objects_configs[n] :
        n \in {x \in DOMAIN memoized_objects_configs :
                  memoized_objects_configs[x].is_many_to_many}}

\* the collection holds at most one entity per id
OnePerId(collection) == \A e, f \in collection : e.id = f.id => e = f

\* C7: when process_chunk binds a many-to-many relation, every collection a
\* record carries keeps each entity it held (the collection after the step is
\* a superset of the one before) and holds at most one entity per id.
C7_MergeKeepsBound ==
    [][\A t \in Callers : loc[t].pc = "bind" =>
          \A r \in Records : \A attribute \in DOMAIN heap[r].poc :
              /\ attribute \in DOMAIN heap'[r].poc
              /\ heap[r].poc[attribute] \subseteq heap'[r].poc[attribute]
              /\ OnePerId(heap'[r].poc[attribute])]_vars

\* C7 witness: a call on objects the caller kept has returned, record 1 is in
\* its chunk and still carries both its entities although the bridge cache has
\* lost the list of record 1
C7_Witness ==
    /\ Returned(1) /\ ~loc[1].fresh
    /\ M2MConfigs # {}
    /\ 1 \in Range(loc[1].objects)
    /\ heap[1].has_poc
    /\ heap[1].poc[<<"tags">>] = {Entity(1), Entity(2)}
    /\ \A config \in M2MConfigs :
          ~LRUHas(through_model_source_target_cache[CacheKey(config)], 1)

\* the entities of the target ids the through relation links to record r
LinkedEntities(config, r) ==
    {Entity(row[config.target_field.v]) :
        row \in {x \in ThroughRows : x[config.source_field.v] = r}}

\* C8: when process_chunk has returned from a chunk of records that carried no
\* collection, the collection of every record of the chunk is the set of the
\* entities the through relation links to it, whatever the capacity.
C8_AsStated ==
    \A t \in Callers : \A config \in M2MConfigs :
        (Returned(t) /\ loc[t].fresh) =>
            \A n \in DOMAIN loc[t].objects : \A k \in DOMAIN config.attributes :
                LET r == loc[t].objects[n]
                IN /\ heap[r].has_poc
                   /\ config.attributes[k] \in DOMAIN heap[r].poc
                   /\ heap[r].poc[config.attributes[k]] = LinkedEntities(config, r)

-----------------------------------------------------------------------------
(* C9, C10 *)

\* two of the configs handed to MemoizedPrefetch name the same model
HasDuplicateModel(configs) ==
    \E a, b \in DOMAIN configs : a < b /\ configs[a].model = configs[b].model

\* C9: MemoizedPrefetch(*configs) raises ValueError when two configs name the
\* same model, whatever their other fields, and yields a resolver only when no
\* two do.
C9_UniqueModels ==
    /\ ctor.pc = "ValueError" => HasDuplicateModel(pending)
    /\ ctor.pc = "ready" =>
          /\ ~HasDuplicateModel(pending)
          /\ memoized_objects_configs = pending
    /\ (ctor.pc # "new" /\ HasDuplicateModel(SubSeq(pending, 1, ctor.k - 1))) =>
          ctor.pc = "ValueError"

\* C9 witness: the constructor has raised on two configs of one model that
\* differ in kind and in prefetch_all
C9_Witness ==
    /\ ctor.pc = "ValueError"
    /\ Len(pending) = 2
    /\ pending[1].model = pending[2].model
    /\ pending[1].is_many_to_many # pending[2].is_many_to_many
    /\ pending[1].prefetch_all # pending[2].prefetch_all

\* a bridge field is missing: None, or empty
Missing(field) == field = None \/ field = Some(<<>>)

\* the config has is_many_to_many set and lacks a bridge field
LacksBridge(args) ==
    /\ args.is_many_to_many
    /\ (Missing(args.through_model) \/ Missing(args.source_field) \/ Missing(args.target_field))

\* C10: MemoizedPrefetchConfig(...) raises exactly when is_many_to_many is true
\* and through_model, source_field or target_field is missing; a config with
\* all three, or with is_many_to_many false, is built.
C10_BridgeFieldsRequired ==
    /\ \A n \in DOMAIN pending : ~LacksBridge(pending[n])
    /\ last_config.outcome = "ValueError" => LacksBridge(last_config.args)
    /\ last_config.outcome = "ok" =>
          /\ ~LacksBridge(last_config.args)
          /\ pending # <<>> /\ pending[Len(pending)] = last_config.args

\* C10 witness: a many-to-many config whose only missing field is target_field
\* has been refused
C10_Witness ==
    /\ last_config.outcome = "ValueError"
    /\ last_config.args.is_many_to_many
    /\ last_config.args.through_model = Some(<<"Through">>)
    /\ last_config.args.source_field = Some(<<"rec", "_id">>)
    /\ last_config.args.target_field = None

-----------------------------------------------------------------------------
(* C11 *)

\* the smaller of two numbers
Min(a, b) == IF a < b THEN a ELSE b

\* C11: once MemoizedPrefetch(*configs) has returned, the entity cache of a
\* config with prefetch_all holds min(number of rows of its model,
\* lru_cache_size) entities of that model, within its capacity, after one
\* query; the cache of a config without prefetch_all is empty and its model was
\* never queried.
C11_EagerLoadWithinCapacity ==
    ctor.pc = "ready" =>
        \A n \in DOMAIN memoized_objects_configs :
            LET config == memoized_objects_configs[n]
                memo == memoized_objects[config.model]
                queries == {x \in DOMAIN db_calls : db_calls[x] = config.model}
            IN /\ LRUGetSize(memo) = config.lru_cache_size
               /\ LRULen(memo) <= LRUGetSize(memo)
               /\ IF config.prefetch_all
                  THEN /\ LRULen(memo) = Min(Cardinality(Table(config.model)),
                                             config.lru_cache_size)
                       /\ Cardinality(LRUKeySet(memo)) = LRULen(memo)
                       /\ LRUKeySet(memo) \subseteq Table(config.model)
                       /\ \A i \in DOMAIN memo.items : memo.items[i].v.id = memo.items[i].k
                       /\ Cardinality(queries) = 1
                  ELSE /\ LRULen(memo) = 0
                       /\ queries = {}

\* C11 witness: a resolver exists whose first config loaded 2 of the 3 rows of
\* its model at capacity 2 and whose second config loaded nothing
C11_Witness ==
    /\ ctor.pc = "ready"
    /\ Len(memoized_objects_configs) = 2
    /\ memoized_objects_configs[1].prefetch_all
    /\ memoized_objects_configs[1].lru_cache_size = 2
    /\ Cardinality(Table(memoized_objects_configs[1].model)) = 3
    /\ LRULen(memoized_objects[memoized_objects_configs[1].model]) = 2
    /\ ~memoized_objects_configs[2].prefetch_all
    /\ LRULen(memoized_objects[memoized_objects_configs[2].model]) = 0

-----------------------------------------------------------------------------
(* C12, C13 *)

\* caller t is about to resolve the bridge of a many-to-many config
AtBridge(t) ==
    /\ loc[t].pc = "need"
    /\ loc[t].j <= Len(memoized_objects_configs)
    /\ memoized_objects_configs[loc[t].j].is_many_to_many

\* the bridge cache of the config caller t is at
BridgeAt(caches, t) == BridgeOf(caches, memoized_objects_configs[loc[t].j])

\* C12: when every record id of the chunk (none, for the empty chunk) is a key
\* of the bridge cache, _get_m2m_related_ids issues no query against the
\* through model and leaves the keys, the lists and the recency order of the
\* bridge cache as they were.
C12_HitLeavesBridge ==
    [][\A t \in Callers :
          (AtBridge(t) /\ Range(loc[t].objects) \subseteq
                              LRUKeySet(BridgeAt(through_model_source_target_cache, t))) =>
              /\ BridgeAt(through_model_source_target_cache', t)
                     = BridgeAt(through_model_source_target_cache, t)
              /\ loc'[t].through_calls = loc[t].through_calls]_vars

\* C12 witness: the need computation of a call on a chunk that is not empty is
\* over, no query went to the through model and every record id of the chunk
\* is a key of the bridge cache
C12_Witness ==
    /\ loc[1].pc = "need"
    /\ loc[1].j > Len(memoized_objects_configs)
    /\ M2MConfigs # {}
    /\ loc[1].objects # <<>>
    /\ loc[1].through_calls = <<>>
    /\ \A config \in M2MConfigs :
          Range(loc[1].objects) \subseteq
              LRUKeySet(BridgeOf(through_model_source_target_cache, config))

\* C13: when some record id of the chunk is not a key of the bridge cache,
\* _get_m2m_related_ids issues one query against the through model, filtered on
\* the ids of the chunk that are not keys of the cache and on no other id.
C13_OneQueryForUnseen ==
    [][\A t \in Callers :
          (AtBridge(t) /\ ~(Range(loc[t].objects) \subseteq
                                LRUKeySet(BridgeAt(through_model_source_target_cache, t)))) =>
              loc'[t].through_calls =
                  Append(loc[t].through_calls,
                         Range(loc[t].objects)
                             \ LRUKeySet(BridgeAt(through_model_source_target_cache, t)))]_vars

\* C13 witness: the one query of a call went out for some of the record ids of
\* its chunk and not for the others, which the bridge cache held
C13_Witness ==
    /\ loc[1].pc = "need"
    /\ loc[1].j > Len(memoized_objects_configs)
    /\ Len(loc[1].through_calls) = 1
    /\ loc[1].through_calls[1] # {}
    /\ loc[1].through_calls[1] \subseteq Range(loc[1].objects)
    /\ loc[1].through_calls[1] # Range(loc[1].objects)

-----------------------------------------------------------------------------
(* C14 *)

\* the sequence without the later occurrences of its elements
RECURSIVE Distinct(_)
Distinct(seq) ==
    IF seq = <<>> THEN <<>>
    ELSE <<Head(seq)>> \o Distinct(SelectSeq(Tail(seq), LAMBDA x : x # Head(seq)))

\* the sequence backwards
Reverse(seq) == [n \in DOMAIN seq |-> seq[Len(seq) + 1 - n]]

\* the C keys used most recently, latest first, given the uses latest first
MostRecentlyUsed(uses, C) ==
    LET all == Distinct(uses)
    IN IF Len(all) > C THEN SubSeq(all, 1, C) ELSE all

\* the source ids of the rows of the through model, in row order
RowSources(rows) == [n \in DOMAIN rows |-> rows[n][1]]

\* caller t is about to bind a many-to-many config onto a record
AtM2MBinding(t) ==
    /\ loc[t].pc = "bind"
    /\ memoized_objects_configs[loc[t].j].is_many_to_many

\* C14: the bridge cache never holds more than lru_cache_size source ids, and
\* its keys are always the lru_cache_size source ids used most recently: a
\* resolution of the bridge leaves the most recently used of (the sources of
\* the rows the query returned, in row order, then the keys held before), and
\* binding a record whose id is a key makes that key the most recent one.
C14_BridgeIsLRU ==
    /\ [](\A config \in M2MConfigs :
             LET bridge == BridgeOf(through_model_source_target_cache, config)
             IN /\ LRULen(bridge) <= config.lru_cache_size
                /\ LRUGetSize(bridge) = config.lru_cache_size
                /\ Cardinality(LRUKeySet(bridge)) = LRULen(bridge))
    /\ [][\A t \in Callers : AtBridge(t) =>
             LET config == memoized_objects_configs[loc[t].j]
                 keys == LRUKeys(BridgeAt(through_model_source_target_cache, t))
             IN \E rows \in Orderings(ThroughPairs(config, Range(loc[t].objects) \ Range(keys))) :
                   LRUKeys(BridgeAt(through_model_source_target_cache', t))
                       = MostRecentlyUsed(Reverse(RowSources(rows)) \o keys,
                                          config.lru_cache_size)]_vars
    /\ [][\A t \in Callers : AtM2MBinding(t) =>
             LET config == memoized_objects_configs[loc[t].j]
                 keys == LRUKeys(BridgeAt(through_model_source_target_cache, t))
                 r == loc[t].objects[loc[t].i]
             IN LRUKeys(BridgeAt(through_model_source_target_cache', t))
                    = MostRecentlyUsed((IF r \in Range(keys) THEN <<r>> ELSE <<>>) \o keys,
                                       config.lru_cache_size)]_vars

\* C14 witness: at capacity 2, a call on records 1, 2 and 4 that found 1 and 2
\* in the bridge cache has returned, and the cache holds the lists of 4 and 2,
\* the two sources used last
C14_Witness ==
    /\ Returned(1)
    /\ loc[1].objects = <<1, 2, 4>>
    /\ loc[1].through_calls = <<{4}>>
    /\ \E config \in M2MConfigs :
          /\ config.lru_cache_size = 2
          /\ BridgeOf(through_model_source_target_cache, config).items
                 = <<[k |-> 4, v |-> <<3>>], [k |-> 2, v |-> <<2>>]>>

-----------------------------------------------------------------------------
(* C15 *)

\* C15: when process_chunk has returned, for every record of the chunk and
\* every attribute path of a direct config whose foreign-key id is not null,
\* the entity set for that attribute has that id, for each attribute of a
\* config that lists several.
C15_BoundEntityHasTheId ==
    \A t \in Callers : Returned(t) =>
        \A config \in DirectConfigs :
            \A n \in DOMAIN loc[t].objects : \A k \in DOMAIN config.attributes :
                LET r == loc[t].objects[n]
                    attribute == config.attributes[k]
                IN PathId(r, attribute) # 0 => SlotValue(heap, r, attribute) = PathId(r, attribute)

\* C15 witness: with attributes p and q of one model, a call has returned from
\* a chunk with records 1 and 3, whose p and q lead to three different rows
C15_Witness ==
    /\ Returned(1)
    /\ \E config \in DirectConfigs : config.attributes = << <<"p">>, <<"q">> >>
    /\ {1, 3} \subseteq Range(loc[1].objects)
    /\ SlotValue(heap, 1, <<"p">>) = 1 /\ SlotValue(heap, 1, <<"q">>) = 2
    /\ SlotValue(heap, 3, <<"p">>) = 3 /\ SlotValue(heap, 3, <<"q">>) = 3

-----------------------------------------------------------------------------
(* C16 *)

\* the entity objects record r carries at a flat attribute or in a collection
CarriedBy(r) ==
    {heap[r].attrs[a] : a \in DOMAIN heap[r].attrs}
        \cup UNION {heap[r].poc[a] : a \in DOMAIN heap[r].poc}

\* C16: when process_chunk has returned, every entity a record of the chunk
\* carries for an id the entity cache holds is the object the cache holds for
\* that id, the one fetched last: no record of the chunk carries an older
\* object, for direct and for many-to-many relations.
C16_AsStated ==
    \A t \in Callers : Returned(t) =>
        \A n \in DOMAIN memoized_objects_configs :
            LET memo == memoized_objects[memoized_objects_configs[n].model]
            IN \A k \in DOMAIN loc[t].objects : \A e \in CarriedBy(loc[t].objects[k]) :
                  LRUHas(memo, e.id) => LRUPeek(memo, e.id) = e

-----------------------------------------------------------------------------
(* C17 *)

\* the model whose fetched entities caller t is handling
FetchedModel(t) == loc[t].need_to_prefetch[loc[t].i].cls

\* C17 as stated: when the fetched entities of a model are about to be
\* inserted, the capacity of its cache is the number of entries the cache
\* holds plus the number of entities the fetch returned.
C17_AsStated ==
    \A t \in Callers : loc[t].pc = "insert" =>
        LRUGetSize(memoized_objects[FetchedModel(t)])
            = LRULen(memoized_objects[FetchedModel(t)]) + Len(loc[t].new_objects)

\* C17: for each model with a miss set that is not empty, the step before the
\* insertion of the fetched entities raises the capacity of the model's cache
\* to the capacity it has (get_size()) plus the number of entities the fetch
\* returned, and leaves its entries as they were.
C17_RaisedFromCapacity ==
    [][\A t \in Callers : loc[t].pc = "expand" =>
          /\ loc'[t].pc = "insert"
          /\ LRUGetSize(memoized_objects'[FetchedModel(t)])
                 = LRUGetSize(memoized_objects[FetchedModel(t)]) + Len(loc[t].new_objects)
          /\ memoized_objects'[FetchedModel(t)].items
                 = memoized_objects[FetchedModel(t)].items]_vars

\* C17 witness: one entity was fetched for a cache of capacity 2 that holds one
\* entry, and the capacity is 3 as the insertion begins
C17_Witness ==
    /\ loc[1].pc = "insert"
    /\ Len(loc[1].new_objects) = 1
    /\ ConfigOf(FetchedModel(1)).lru_cache_size = 2
    /\ LRULen(memoized_objects[FetchedModel(1)]) = 1
    /\ LRUGetSize(memoized_objects[FetchedModel(1)]) = 3

-----------------------------------------------------------------------------
(* C18 *)

\* C18: when a process_chunk call has returned normally, the cache of every
\* configured model has capacity lru_cache_size and holds at most that many
\* entries, whatever calls came before, those that raised included.
C18_CapacityRestored ==
    \A t \in Callers : Returned(t) =>
        \A n \in DOMAIN memoized_objects_configs :
            LET config == memoized_objects_configs[n]
                memo == memoized_objects[config.model]
            IN /\ LRUGetSize(memo) = config.lru_cache_size
               /\ LRULen(memo) <= config.lru_cache_size

\* C18 witness: a call that fetched 3 entities for a cache of capacity 2 has
\* returned, and the cache is at capacity 2 with 2 entries
C18_Witness ==
    /\ Returned(1)
    /\ \E n \in DOMAIN loc[1].fetch_calls :
          LET cls == loc[1].fetch_calls[n].cls
          IN /\ Cardinality(NeedOf(loc[1].returned, cls)) = 3
             /\ ConfigOf(cls).lru_cache_size = 2
             /\ LRUGetSize(memoized_objects[cls]) = 2
             /\ LRULen(memoized_objects[cls]) = 2

-----------------------------------------------------------------------------
(* C19 *)

\* C19: for a direct relation, the ids a process_chunk call passes to in_bulk
\* are the non-null foreign-key ids of the records of the chunk over the
\* attribute paths of the config, minus the keys the cache held when the call
\* began: the entity caches do not change between the beginning of the call
\* and the fetch of their model, and the fetch asks for the referenced ids that
\* are not keys of the cache.
C19_FetchIsNeededMinusCached ==
    /\ [][(ctor.pc = "ready" /\ \A t \in Callers : loc[t].pc \in {"idle", "need", "fetch"}) =>
             memoized_objects' = memoized_objects]_vars
    /\ [][\A t \in Callers : loc[t].pc \in {"expand", "insert"} =>
             \A cls \in DOMAIN memoized_objects \ {FetchedModel(t)} :
                 memoized_objects'[cls] = memoized_objects[cls]]_vars
    /\ [][\A t \in Callers :
             (loc[t].pc = "fetch" /\ ~ConfigOf(FetchedModel(t)).is_many_to_many) =>
                 loc'[t].fetch_calls =
                     Append(loc[t].fetch_calls,
                            [cls |-> FetchedModel(t),
                             ids |-> Range(Accesses(loc[t].objects,
                                                    ConfigOf(FetchedModel(t)), 1, 1))
                                         \ LRUKeySet(memoized_objects[FetchedModel(t)])])]_vars

\* C19 witness: a call has returned whose fetch asked for some of the ids its
\* chunk references and not for the others, which were cached
C19_Witness ==
    /\ Returned(1)
    /\ \E n \in DOMAIN loc[1].fetch_calls :
          LET call == loc[1].fetch_calls[n]
              referenced == Range(Accesses(loc[1].objects, ConfigOf(call.cls), 1, 1))
          IN /\ ~ConfigOf(call.cls).is_many_to_many
             /\ call.ids # {}
             /\ call.ids \subseteq referenced
             /\ call.ids # referenced

-----------------------------------------------------------------------------
(* C20 *)

\* C20 as stated: every bulk fetch a call makes for the model of a
\* many-to-many relation asks only for target ids the bridge table links to
\* the record ids of the call's own chunk; a target id linked only to source
\* ids the bridge cache kept from earlier chunks is never requested.
C20_AsStated ==
    \A t \in Callers : \A n \in DOMAIN loc[t].fetch_calls :
        LET call == loc[t].fetch_calls[n]
            config == ConfigOf(call.cls)
        IN config.is_many_to_many =>
              call.ids \subseteq
                  {pair[2] : pair \in ThroughPairs(config, Range(loc[t].objects))}

-----------------------------------------------------------------------------
(* C21 *)

\* those of the source ids the through relation has no row for
Unlinked(config, ids) == {r \in ids : ThroughPairs(config, {r}) = {}}

\* C21: a source id with no row in the through relation is never a key of the
\* bridge cache; a call that has returned leaves the record of such an id
\* with an empty collection under every attribute of the config; and every
\* resolution of the bridge for a chunk that holds such an id issues a query
\* against the through model that asks for it again.
C21_UnlinkedSourceNeverCached ==
    /\ [](\A config \in M2MConfigs :
             /\ Unlinked(config, LRUKeySet(BridgeOf(through_model_source_target_cache,
                                                     config))) = {}
             /\ \A t \in Callers : Returned(t) =>
                   \A r \in Unlinked(config, Range(loc[t].objects)) :
                       \A k \in DOMAIN config.attributes :
                           /\ heap[r].has_poc
                           /\ config.attributes[k] \in DOMAIN heap[r].poc
                           /\ heap[r].poc[config.attributes[k]] = {})
    /\ [][\A t \in Callers :
             (AtBridge(t) /\ Unlinked(memoized_objects_configs[loc[t].j],
                                      Range(loc[t].objects)) # {}) =>
                /\ Len(loc'[t].through_calls) = Len(loc[t].through_calls) + 1
                /\ Unlinked(memoized_objects_configs[loc[t].j], Range(loc[t].objects))
                       \subseteq loc'[t].through_calls[Len(loc'[t].through_calls)]]_vars

\* C21 witness: two calls in a row on the same chunk, which holds record 3
\* (no row in the through relation) next to a linked record, have returned;
\* the second call queried the through model for record 3 alone, record 3
\* carries an empty collection and is not a key of the bridge cache
C21_Witness ==
    /\ Returned(1) /\ loc[1].repeat
    /\ M2MConfigs # {}
    /\ 3 \in Range(loc[1].objects)
    /\ Len(loc[1].objects) > 1
    /\ loc[1].through_calls = <<{3}>>
    /\ heap[3].has_poc /\ heap[3].poc[<<"tags">>] = {}
    /\ \A config \in M2MConfigs :
          ~LRUHas(BridgeOf(through_model_source_target_cache, config), 3)

-----------------------------------------------------------------------------
(* C22 *)

\* C22 as stated: the list of every key of a bridge cache holds every target
\* id the through relation links to that source id, each exactly once.
C22_AsStated ==
    \A config \in M2MConfigs :
        LET bridge == BridgeOf(through_model_source_target_cache, config)
        IN \A source_id \in LRUKeySet(bridge) :
              LET linked == {pair[2] : pair \in ThroughPairs(config, {source_id})}
                  target_ids == LRUPeek(bridge, source_id)
              IN /\ Range(target_ids) = linked
                 /\ Len(target_ids) = Cardinality(linked)

-----------------------------------------------------------------------------
(* C23 *)

\* the non-null foreign-key ids the chunk references for the config that the
\* queryset of the config has no row for
Dangling(config, objects) == Range(Accesses(objects, config, 1, 1)) \ get_queryset(config)

\* C23 as stated: a process_chunk call on a chunk with a record whose
\* foreign-key id has no matching row ends without error, with the id absent
\* from the cache and every cache back at its configured capacity.
C23_AsStated ==
    \A t \in Callers : \A config \in DirectConfigs :
        (loc[t].pc = "idle" /\ loc[t].result # "none"
            /\ Dangling(config, loc[t].objects) # {}) =>
                /\ loc[t].result = "ok"
                /\ Dangling(config, loc[t].objects)
                       \cap LRUKeySet(memoized_objects[config.model]) = {}
                /\ LRUGetSize(memoized_objects[config.model]) = config.lru_cache_size

-----------------------------------------------------------------------------
(* C24 *)

\* lines 78-90 run as a whole: the bridge caches and the need sets a need
\* computation that raises nothing may end with, from config j on
RECURSIVE NeedOutcomes(_, _, _, _, _)
NeedOutcomes(caches, need_objects, h, objects, j) ==
    IF j > Len(memoized_objects_configs)
    THEN {[caches |-> caches, need_objects |-> need_objects]}
    ELSE LET config == memoized_objects_configs[j]
             obj_ids == [n \in DOMAIN objects |-> GetAttr(h, objects[n], <<"id">>).n]
         IN IF config.is_many_to_many
            THEN UNION {
                   LET r == get_m2m_related_ids(caches, obj_ids, config, through_objects)
                   IN NeedOutcomes(r.caches,
                                   NeedFromValues(need_objects, config.model,
                                                  LRUValues(r.caches[CacheKey(config)])),
                                   h, objects, j + 1) :
                   through_objects \in
                       Orderings(ThroughPairs(config, UnseenIds(caches, obj_ids, config)))}
            ELSE NeedOutcomes(caches, NeedFromObjects(need_objects, h, config, objects, 1),
                              h, objects, j + 1)

\* lines 100-105 run as a whole: the entity caches the fetches of the models
\* from position i on may leave
RECURSIVE FetchOutcomes(_, _, _)
FetchOutcomes(memos, need_to_prefetch, i) ==
    IF i > Len(need_to_prefetch) THEN {memos}
    ELSE LET cls == need_to_prefetch[i].cls
         IN UNION {
              FetchOutcomes([memos EXCEPT
                                ![cls] = LRUUpdate(LRUSetSize(@, ExpandedSize(@, AsDict(rows))),
                                                   AsDict(rows))],
                            need_to_prefetch, i + 1) :
              rows \in InBulkResults(ConfigOf(cls), need_to_prefetch[i].ids)}

\* lines 108-113 run as a whole, from object i and config j on
RECURSIVE BindOutcome(_, _, _, _, _, _)
BindOutcome(h, memos, caches, objects, i, j) ==
    IF i > Len(objects) THEN [err |-> "none", heap |-> h, memos |-> memos, caches |-> caches]
    ELSE IF j > Len(memoized_objects_configs)
    THEN BindOutcome(h, memos, caches, objects, i + 1, 1)
    ELSE LET r == Bound(h, memos, caches, memoized_objects_configs[j], objects[i])
         IN IF r.err # "none" THEN r
            ELSE BindOutcome(r.heap, r.memos, r.caches, objects, i, j + 1)

\* what the claim compares: the bindings on the objects, the keys and the
\* capacity of every entity cache, the keys of every bridge cache with their
\* lists
Observed(h, memos, caches) ==
    [bindings |-> h,
     keys |-> [cls \in DOMAIN memos |-> LRUKeySet(memos[cls])],
     sizes |-> [cls \in DOMAIN memos |-> LRUGetSize(memos[cls])],
     lists |-> [key \in DOMAIN caches |->
                   [source_id \in LRUKeySet(caches[key]) |-> LRUPeek(caches[key], source_id)]]]

\* process_chunk(objects) run as a whole from the given caches and objects
\* with every query answered: what the calls that return leave
CompletedRuns(start, objects) ==
    UNION {
      UNION {
        LET b == BindOutcome(start.heap, memos, n.caches, objects, 1, 1)
        IN IF b.err # "none" THEN {}
           ELSE {Observed(b.heap,
                          [cls \in DOMAIN b.memos |->
                              LRUSetSize(b.memos[cls], RestoredSize(ConfigOf(cls)))],
                          b.caches)} :
        memos \in FetchOutcomes(start.memos, NeedToPrefetch(n.need_objects, start.memos), 1)} :
      n \in NeedOutcomes(start.caches, <<>>, start.heap, objects, 1)}

\* C24 as stated: when a call on the objects of a call that ended with
\* OperationalError has returned, the bindings, the keys and capacities of the
\* entity caches and the entries of the bridge caches are those that a call
\* without failure leaves from where the failed call started.
C24_AsStated ==
    \A t \in Callers : (Returned(t) /\ loc[t].retry) =>
        Observed(heap, memoized_objects, through_model_source_target_cache)
            \in CompletedRuns(loc[t].start[1], loc[t].objects)

-----------------------------------------------------------------------------
(* C25 *)

\* the call of caller t has ended with an error
Failed(t) == loc[t].pc = "idle" /\ loc[t].result \notin {"none", "ok"}

\* C25 as stated: when a process_chunk call has ended with an error, every
\* entity cache has its configured capacity and no more entries than that.
C25_AsStated ==
    \A t \in Callers : Failed(t) =>
        \A cls \in DOMAIN memoized_objects :
            /\ LRUGetSize(memoized_objects[cls]) = ConfigOf(cls).lru_cache_size
            /\ LRULen(memoized_objects[cls]) <= ConfigOf(cls).lru_cache_size

-----------------------------------------------------------------------------
(* C26 *)

\* the non-null ids the chunk of caller t references for the config
Referenced(t, config) == Range(Accesses(loc[t].objects, config, 1, 1))

\* C26: for a direct relation, the restoration of the capacity at the end of
\* process_chunk evicts an id the chunk references only when it keeps no id
\* the chunk does not reference; so when a call has returned and some id its
\* chunk references is not a key of the entity cache, every key of that cache
\* is an id the chunk references.
C26_UnreferencedEvictedFirst ==
    /\ [][\A t \in Callers : \A config \in DirectConfigs :
             (loc[t].pc = "restore" /\ loc'[t].pc = "idle") =>
                LET evicted == LRUKeySet(memoized_objects[config.model])
                                   \ LRUKeySet(memoized_objects'[config.model])
                IN evicted \cap Referenced(t, config) # {} =>
                      LRUKeySet(memoized_objects'[config.model]) \subseteq Referenced(t, config)]_vars
    /\ [](\A t \in Callers : \A config \in DirectConfigs :
             (Returned(t) /\ ~(Referenced(t, config)
                                  \subseteq LRUKeySet(memoized_objects[config.model]))) =>
                 LRUKeySet(memoized_objects[config.model]) \subseteq Referenced(t, config))

\* C26 witness: a call whose fetch asked for only some of the ids its chunk
\* references, the others being cached already, has returned; the cache is
\* full, an id the chunk references is no longer a key, and every key is an id
\* the chunk references
C26_Witness ==
    /\ Returned(1)
    /\ \E config \in DirectConfigs :
          LET keys == LRUKeySet(memoized_objects[config.model])
          IN /\ \E n \in DOMAIN loc[1].fetch_calls :
                   /\ loc[1].fetch_calls[n].cls = config.model
                   /\ loc[1].fetch_calls[n].ids # Referenced(1, config)
             /\ Cardinality(keys) = config.lru_cache_size
             /\ Referenced(1, config) \ keys # {}
             /\ keys \subseteq Referenced(1, config)

-----------------------------------------------------------------------------
(* C27 *)

\* the configs of direct relations with prefetch_all whose table has no more
\* rows than the capacity
EagerFitting ==
    {config \in DirectConfigs :
        config.prefetch_all /\ Cardinality(get_queryset(config)) <= config.lru_cache_size}

\* C27: for a direct relation with prefetch_all whose table has at most
\* lru_cache_size rows, once the resolver is constructed the keys of the
\* entity cache are the ids of all the rows, before, during and after every
\* process_chunk call, and no call issues a fetch for that model.
C27_EagerNeverFetches ==
    ctor.pc = "ready" =>
        \A config \in EagerFitting :
            /\ LRUKeySet(memoized_objects[config.model]) = get_queryset(config)
            /\ \A t \in Callers : \A n \in DOMAIN loc[t].fetch_calls :
                  loc[t].fetch_calls[n].cls # config.model

\* C27 witness: next to a table loaded at construction a second model is
\* configured without prefetch_all; a second call in a row has returned from
\* a chunk that references rows of both tables, having fetched for the second
\* model only, and the one query against the first table is that of __init__
C27_Witness ==
    /\ Returned(1) /\ loc[1].repeat
    /\ Len(memoized_objects_configs) = 2
    /\ \E config \in EagerFitting :
          /\ Referenced(1, config) # {}
          /\ db_calls = <<config.model>>
          /\ Len(loc[1].fetch_calls) = 1
          /\ loc[1].fetch_calls[1].cls # config.model

-----------------------------------------------------------------------------
(* C28 *)

\* the ids caller t relies on for the config that are not keys of the cache
Lost(t, config) == Relied(t, config.model) \ LRUKeySet(memoized_objects[config.model])

\* C28: a process_chunk call that overlaps with no other call on the resolver
\* finds, all through its binding, every id that its fetch returned or that
\* the miss detection found cached, and it does not end with KeyError.  (The
\* witness is the other half: when two calls interleave, one evicts what the
\* other has yet to bind.)
C28_SerializedCallsFindTheirIds ==
    \A t \in Callers : ~loc[t].overlapped =>
        /\ loc[t].result # "KeyError"
        /\ loc[t].pc = "bind" => \A config \in DirectConfigs : Lost(t, config) = {}

\* C28 witness: the calls of the two threads interleave; thread 2 has returned,
\* thread 1 has fetched and inserted its entities and is about to bind its
\* first record, and the entity that record references is no longer in the
\* cache: the restoration of the capacity by thread 2 has evicted it
C28_Witness ==
    /\ loc[1].overlapped /\ loc[1].pc = "bind" /\ loc[1].i = 1 /\ loc[1].j = 1
    /\ Returned(2) /\ loc[2].overlapped /\ loc[2].objects # <<>>
    /\ \E config \in DirectConfigs :
          /\ PathId(loc[1].objects[1], config.attributes[1]) \in Lost(1, config)
          /\ PathId(loc[1].objects[1], config.attributes[1])
                 \in NeedOf(loc[1].returned, config.model)

====
